---- MODULE Spec2Model ----
(***************************************************************************)
(* Model of internal/aws/albec2/ec2.go: the cache-backed resolvers of the  *)
(* ALB ingress controller (subnets, VPC, node health) and the retry policy *)
(* of security-group deletion.                                             *)
(*                                                                         *)
(* One process-wide TTL cache is shared by all resolvers.  Every resolver  *)
(* operation is one action; the answers of the remote services (EC2 API,   *)
(* metadata service, tag index) are inputs drawn with \E.  Each operation  *)
(* leaves a record of what it returned and which remote calls it issued in *)
(* the variable ret.  Each component has a specification of its own        *)
(* (SpecVPC, SpecSubnets, SpecCluster, SpecHealth, SpecDelete, SpecGroups, *)
(* SpecPages, SpecConcurrent) over the                                     *)
(* same variables.                                                         *)
(***************************************************************************)
EXTENDS Integers, Sequences, FiniteSets, TLC

VARIABLES
    cache,        \* albcache: <<namespace, key>> -> [value, ttl], live entries only
    AWS_VPC_ID,   \* the environment override read by GetVPCID
    ret,          \* the last operation: its arguments, result, error and remote calls
    fetched,      \* per <<operation, key>>: the value last fetched and the minutes since
    req,          \* the request of DeleteSecurityGroupByID in flight
    callers       \* the GetVPC calls in progress, per concurrent caller

vars == <<cache, AWS_VPC_ID, ret, fetched, req, callers>>

(***************************************************************************)
(* Values                                                                  *)
(***************************************************************************)
Nil == "<nil>"                       \* a nil pointer / nil interface / nil error

NilValue == [type |-> "nil"]         \* a nil result or a nil cache item
NoErr == [code |-> "nil"]            \* a nil error
Err(code, detail) == [code |-> code, detail |-> detail]   \* detail: strings
Panic == Err("panic", <<"interface conversion">>)
String(s) == [type |-> "*string", s |-> s]
Bool(b)   == [type |-> "bool", b |-> b]
Vpc(id, cidr) == [type |-> "*ec2.Vpc", VpcId |-> id, CidrBlock |-> cidr]
StringSlice(q) == [type |-> "[]*string", elems |-> q]
Tag(key, value) == [Key |-> key, Value |-> value]
Subnet(id, az, vpc, tags) ==
    [type |-> "*ec2.Subnet", SubnetId |-> id, AvailabilityZone |-> az, VpcId |-> vpc,
     Tags |-> tags]

\* what an operation leaves behind: op(arg) returned (val, err) after issuing calls
Return(op, arg, val, err, calls) ==
    [op |-> op, arg |-> arg, val |-> val, err |-> err, calls |-> calls]

NoReturn == Return("none", Nil, NilValue, NoErr, <<>>)

\* no concurrent callers
NoCallers == [p \in {} |-> Nil]

\* an unrecovered panic ends the process
Running == ret.err # Panic

(***************************************************************************)
(* albcache: namespaced key -> value store with per-entry expiry.  An      *)
(* entry is visible until its ttl has elapsed; ttl is kept as the minutes  *)
(* that remain, and an elapsed entry is dropped from the function (it      *)
(* reads as a miss either way).                                            *)
(***************************************************************************)
NoEntries == [k \in {} |-> Nil]

CacheGet(c, cacheName, key) ==
    IF <<cacheName, key>> \in DOMAIN c THEN c[<<cacheName, key>>].value ELSE NilValue

CacheSet(c, cacheName, key, value, ttl) ==
    [k \in DOMAIN c \cup {<<cacheName, key>>} |->
        IF k = <<cacheName, key>> THEN [value |-> value, ttl |-> ttl] ELSE c[k]]

CacheElapse(c, d) ==
    [k \in {j \in DOMAIN c : c[j].ttl > d} |-> [c[k] EXCEPT !.ttl = @ - d]]

(***************************************************************************)
(* Bounds and the inputs the environment can produce                       *)
(***************************************************************************)
AgeSlack == 1                        \* minutes since a fetch are counted up to ttl + AgeSlack

VpcIds    == {"", "vpc-1"}           \* ids passed to GetVPC
CidrBlocks == {"10.0.0.0/16", "10.1.0.0/16"}
EnvValues == {"", "vpc-1"}           \* values of AWS_VPC_ID

\* answers of DescribeVpcs: an error, or a list of 0, 1 or 2 descriptors
DescribeVpcsOutputs(id) ==
    {[err |-> Err("RequestError", <<>>), Vpcs |-> <<>>]}
    \cup {[err |-> NoErr, Vpcs |-> <<>>]}
    \cup {[err |-> NoErr, Vpcs |-> <<Vpc(id, c)>>] : c \in CidrBlocks}
    \cup {[err |-> NoErr, Vpcs |-> <<Vpc(id, c), Vpc(id, c)>>] : c \in CidrBlocks}

\* answers of the metadata service
IdentityDocuments ==
    {[err |-> Err("RequestError", <<>>), InstanceID |-> ""], [err |-> NoErr, InstanceID |-> "i-self"]}

\* answers of DescribeInstances: Reservations, each a list of instances
Instance(vpcId) == [VpcId |-> vpcId]
DescribeInstancesOutputs ==
    {[err |-> Err("RequestError", <<>>), Reservations |-> <<>>]}
    \cup {[err |-> NoErr, Reservations |-> r] :
            r \in {<<>>, << <<>> >>, << <<>>, <<Instance("vpc-1")>> >>}}
    \cup {[err |-> NoErr, Reservations |-> << <<Instance(v)>> >>] : v \in {Nil, "", "vpc-1", "vpc-2"}}

\* bookkeeping: op has just fetched val for key from the remote API
Fetched(f, op, key, val, ttl) ==
    [k \in DOMAIN f \cup {<<op, key>>} |->
        IF k = <<op, key>> THEN [val |-> val, age |-> 0, ttl |-> ttl] ELSE f[k]]

(***************************************************************************)
(* Time: d minutes pass                                                    *)
(***************************************************************************)
Tick(d) ==
    /\ Running
    /\ cache' = CacheElapse(cache, d)
    /\ fetched' = [i \in DOMAIN fetched |->
                    [fetched[i] EXCEPT !.age = IF @ + d > fetched[i].ttl + AgeSlack
                                                 THEN fetched[i].ttl + AgeSlack ELSE @ + d]]
    /\ UNCHANGED <<AWS_VPC_ID, ret, req, callers>>

(***************************************************************************)
(* VPC locator                                                             *)
(***************************************************************************)
GetVPCIDCacheTTL == 60
GetVPCCacheTTL == 60

\* mutant: an empty VPC id passes
instanceVPCIsValid_emptyPasses(o) ==
    IF Len(o.Reservations) < 1
      THEN Err("LookupError", <<"reservations", ToString(Len(o.Reservations))>>)
    ELSE IF Len(o.Reservations[1]) < 1
      THEN Err("LookupError", <<"instances", ToString(Len(o.Reservations))>>)
    ELSE IF o.Reservations[1][1].VpcId = Nil
      THEN Err("LookupError", <<"nil value for VPC">>)
    ELSE NoErr

\* instanceVPCIsValid: NoErr when the output carries a usable VPC id
instanceVPCIsValid(o) ==
    IF Len(o.Reservations) < 1
      THEN Err("LookupError", <<"reservations", ToString(Len(o.Reservations))>>)
    ELSE IF Len(o.Reservations[1]) < 1
      THEN Err("LookupError", <<"instances", ToString(Len(o.Reservations))>>)
    ELSE IF o.Reservations[1][1].VpcId = Nil
      THEN Err("LookupError", <<"nil value for VPC">>)
    ELSE IF o.Reservations[1][1].VpcId = ""
      THEN Err("LookupError", <<"empty value for VPC">>)
    ELSE NoErr

\* mutant: the override is not consulted
GetVPCIDOverride_ignored(v) == FALSE

\* the override of the environment, consulted before anything else
GetVPCIDOverride(v) == v # ""

\* GetVPCID as a function of the state it reads and the answers it gets:
\* the returned record and the cache it leaves
GetVPCIDResult(c, v, doc, o) ==
    LET cacheName == "EC2.GetVPCID"
        item == CacheGet(c, cacheName, "")
        callMeta == [api |-> "GetInstanceIdentityDocument"]
        callDesc == [api |-> "DescribeInstances", InstanceIds |-> <<doc.InstanceID>>,
                     out |-> o.Reservations]
    IN  IF GetVPCIDOverride(v)
          THEN [ret |-> Return("GetVPCID", Nil, String(v), NoErr, <<>>), cache |-> c]
        ELSE IF item # NilValue
          THEN IF item.type = "*string"
                 THEN [ret |-> Return("GetVPCID", Nil, String(item.s), NoErr, <<>>), cache |-> c]
                 ELSE [ret |-> Return("GetVPCID", Nil, NilValue, Panic, <<>>), cache |-> c]
        ELSE IF doc.err # NoErr
          THEN [ret |-> Return("GetVPCID", Nil, NilValue, doc.err, <<callMeta>>), cache |-> c]
        ELSE IF o.err # NoErr
          THEN [ret |-> Return("GetVPCID", Nil, NilValue, o.err, <<callMeta, callDesc>>), cache |-> c]
        ELSE IF instanceVPCIsValid(o) # NoErr
          THEN [ret |-> Return("GetVPCID", Nil, NilValue, instanceVPCIsValid(o), <<callMeta, callDesc>>),
                cache |-> c]
        ELSE LET vpc == o.Reservations[1][1].VpcId
             IN  [ret |-> Return("GetVPCID", Nil, String(vpc), NoErr, <<callMeta, callDesc>>),
                  cache |-> CacheSet(c, cacheName, "", String(vpc), GetVPCIDCacheTTL)]

GetVPCID(doc, o) ==
    /\ Running
    /\ LET r == GetVPCIDResult(cache, AWS_VPC_ID, doc, o)
       IN  /\ ret' = r.ret
           /\ cache' = r.cache
    /\ UNCHANGED <<AWS_VPC_ID, fetched, req, callers>>

\* mutant: an ambiguous answer is accepted
GetVPCCountOK_atLeastOne(n) == n >= 1

\* the cardinality check of GetVPC on the describe output
GetVPCCountOK(n) == n = 1

\* mutant: the descriptor is stored under the fixed key of GetVPCID
GetVPCStore_fixedKey(c, id, vpc) == CacheSet(c, "EC2.GetVPCID", "", vpc, GetVPCCacheTTL)

\* GetVPC writes the descriptor it fetched under the id
GetVPCStore(c, id, vpc) == CacheSet(c, "EC2.GetVPCID", id, vpc, GetVPCCacheTTL)

GetVPC(id, o) ==
    LET cacheName == "EC2.GetVPCID"
        item == CacheGet(cache, cacheName, id)
        call == [api |-> "DescribeVpcs", VpcIds |-> <<id>>, out |-> o.Vpcs]
    IN  /\ Running
        /\ IF item # NilValue
             THEN /\ IF item.type = "*ec2.Vpc"
                       THEN ret' = Return("GetVPC", id, item, NoErr, <<>>)
                       ELSE ret' = Return("GetVPC", id, NilValue, Panic, <<>>)
                  /\ UNCHANGED <<cache, fetched>>
           ELSE IF o.err # NoErr
             THEN /\ ret' = Return("GetVPC", id, NilValue, o.err, <<call>>)
                  /\ UNCHANGED <<cache, fetched>>
           ELSE IF ~GetVPCCountOK(Len(o.Vpcs))
             THEN /\ ret' = Return("GetVPC", id, NilValue,
                                 Err("Invalid amount of VPCs", <<ToString(Len(o.Vpcs)), id>>), <<call>>)
                  /\ UNCHANGED <<cache, fetched>>
           ELSE /\ cache' = GetVPCStore(cache, id, o.Vpcs[1])
                /\ ret' = Return("GetVPC", id, o.Vpcs[1], NoErr, <<call>>)
                /\ fetched' = Fetched(fetched, "GetVPC", id, o.Vpcs[1], GetVPCCacheTTL)
        /\ UNCHANGED <<AWS_VPC_ID, req, callers>>

(***************************************************************************)
(* The subnets of the remote inventory                                     *)
(***************************************************************************)
Inventory ==
    << Subnet("subnet-001", "az-a", "vpc-1", <<Tag("Name", "subnet-a")>>),
       Subnet("subnet-002", "az-a", "vpc-1", <<Tag("Name", "subnet-b")>>),
       Subnet("subnet-003", "az-b", "vpc-1", <<>>),
       Subnet("subnet-004", "az-c", "vpc-2", <<Tag("Name", "subnet-a")>>) >>

\* util.EC2Tags.Get: the value of the first tag with the key, and whether one exists
RECURSIVE EC2TagsGet(_, _)
EC2TagsGet(tags, key) ==
    IF tags = <<>> THEN [value |-> "", ok |-> FALSE]
    ELSE IF Head(tags).Key = key THEN [value |-> Head(tags).Value, ok |-> TRUE]
    ELSE EC2TagsGet(Tail(tags), key)

Range(q) == {q[n] : n \in 1..Len(q)}

\* the answer of DescribeSubnets to a query by Name tag and VPC id: the
\* subnets of the inventory that pass both filters
DescribeSubnetsByName(tagNames, vpcID) ==
    SelectSeq(Inventory, LAMBDA sn : /\ EC2TagsGet(sn.Tags, "Name").ok
                                     /\ EC2TagsGet(sn.Tags, "Name").value \in Range(tagNames)
                                     /\ sn.VpcId = vpcID)

(***************************************************************************)
(* Subnet resolver: GetSubnets                                             *)
(***************************************************************************)
GetSubnetsCacheTTL == 60

MaxNames == 2                        \* GetSubnets is called with up to this many names
SubnetNames == {"subnet-a", "subnet-b", "subnet-c"}
NameLists ==
    {q \in UNION {[1..n -> SubnetNames] : n \in 0..MaxNames} :
        \A i, j \in 1..Len(q) : i # j => q[i] # q[j]}

\* the loop over the requested names: cached ids and names to query
RECURSIVE GetSubnetsPartition(_, _)
GetSubnetsPartition(c, names) ==
    IF names = <<>> THEN [subnets |-> <<>>, queryNames |-> <<>>]
    ELSE LET item == CacheGet(c, "EC2.GetSubnets", Head(names))
             rest == GetSubnetsPartition(c, Tail(names))
         IN  IF item # NilValue
               THEN [rest EXCEPT !.subnets = <<item.s>> \o @]
               ELSE [rest EXCEPT !.queryNames = <<Head(names)>> \o @]

\* the values of the tag:Name filter of the query GetSubnets issues
GetSubnetsFilterValues(names, queryNames) == names

\* the loop over the answer: every subnet with a Name tag is cached and appended
RECURSIVE GetSubnetsCollect(_, _)
GetSubnetsCollect(acc, found) ==
    IF found = <<>> THEN acc
    ELSE LET name == EC2TagsGet(Head(found).Tags, "Name")
         IN  IF name.ok
               THEN GetSubnetsCollect(
                      [cache |-> CacheSet(acc.cache, "EC2.GetSubnets", name.value,
                                          String(Head(found).SubnetId), GetSubnetsCacheTTL),
                       subnets |-> Append(acc.subnets, Head(found).SubnetId)],
                      Tail(found))
               ELSE GetSubnetsCollect(acc, Tail(found))

\* doc and o answer the calls of GetVPCID, describeErr is the error of
\* DescribeSubnets (NoErr: it answers from the inventory)
GetSubnets(names, doc, o, describeErr) ==
    LET vpc == GetVPCIDResult(cache, AWS_VPC_ID, doc, o)
        part == GetSubnetsPartition(vpc.cache, names)
        call == [api |-> "DescribeSubnets",
                 tagName |-> GetSubnetsFilterValues(names, part.queryNames),
                 vpcId |-> vpc.ret.val.s]
        done == GetSubnetsCollect([cache |-> vpc.cache, subnets |-> part.subnets],
                                  DescribeSubnetsByName(call.tagName, call.vpcId))
    IN  /\ Running
        /\ IF vpc.ret.err # NoErr
             THEN /\ ret' = Return("GetSubnets", names, StringSlice(<<>>), vpc.ret.err,
                                   vpc.ret.calls)
                  /\ cache' = vpc.cache
           ELSE IF Len(part.queryNames) = 0
             THEN /\ ret' = Return("GetSubnets", names, StringSlice(part.subnets), NoErr,
                                   vpc.ret.calls)
                  /\ cache' = vpc.cache
           ELSE IF describeErr # NoErr
             THEN /\ ret' = Return("GetSubnets", names, StringSlice(part.subnets),
                                   Err("Unable to fetch subnets", <<>>),
                                   Append(vpc.ret.calls, call))
                  /\ cache' = vpc.cache
           ELSE /\ ret' = Return("GetSubnets", names, StringSlice(done.subnets), NoErr,
                                 Append(vpc.ret.calls, call))
                /\ cache' = done.cache
        /\ UNCHANGED <<AWS_VPC_ID, fetched, req, callers>>

(***************************************************************************)
(* Subnet resolver: ClusterSubnets                                         *)
(***************************************************************************)
tagNameCluster == "kubernetes.io/cluster"
tagNameSubnetInternalELB == "kubernetes.io/role/internal-elb"
tagNameSubnetPublicELB == "kubernetes.io/role/elb"
LoadBalancerSchemeEnumInternal == "internal"
LoadBalancerSchemeEnumInternetFacing == "internet-facing"
ClusterSubnetsCacheTTL == 60

Schemes == {"internal", "internet-facing", "external"}

\* the subnets the tag index can name, and the tag lists it can give them
ClusterSubnetIds == {"subnet-001", "subnet-002", "subnet-003"}
ClusterTagLists ==
    { <<Tag(tagNameCluster, "owned"), Tag(tagNameSubnetInternalELB, "1")>>,
      <<Tag(tagNameCluster, "shared"), Tag(tagNameSubnetPublicELB, "1")>> }

\* an ARN as its segments between the "/" separators
SubnetARN(id) == <<"arn:aws:ec2:us-west-2:000000000000:subnet", id>>

\* answers of GetClusterResources: an error, or the subnets of the cluster
\* with their tags, in the order the loop of ClusterSubnets meets them
ClusterResourcesEntries ==
    {[arn |-> SubnetARN(id), tags |-> t] : id \in ClusterSubnetIds, t \in ClusterTagLists}
ClusterResourcesOutputs ==
    {[err |-> Err("RequestError", <<>>), Subnets |-> <<>>]}
    \cup {[err |-> NoErr, Subnets |-> q] :
            q \in {r \in UNION {[1..n -> ClusterResourcesEntries] :
                                  n \in 0..Cardinality(ClusterSubnetIds)} :
                      \A i, j \in 1..Len(r) : i # j => r[i].arn # r[j].arn}}

\* mutant: a scheme that is not "internal" is taken for internet-facing
ClusterSubnetsKey_defaultPublic(scheme) ==
    IF scheme = LoadBalancerSchemeEnumInternal
      THEN [key |-> tagNameSubnetInternalELB, err |-> NoErr]
      ELSE [key |-> tagNameSubnetPublicELB, err |-> NoErr]

\* the role tag key the scheme requires; no key for a scheme that is not valid
ClusterSubnetsKey(scheme) ==
    IF scheme = LoadBalancerSchemeEnumInternal
      THEN [key |-> tagNameSubnetInternalELB, err |-> NoErr]
    ELSE IF scheme = LoadBalancerSchemeEnumInternetFacing
      THEN [key |-> tagNameSubnetPublicELB, err |-> NoErr]
    ELSE [key |-> "", err |-> Err("Invalid scheme", <<scheme>>)]

\* mutant: new is compared with the subnet admitted last only
subnetIsUsable_lastOnly(new, existing) ==
    existing = <<>> \/ new.AvailabilityZone # existing[Len(existing)].AvailabilityZone

\* subnetIsUsable: no subnet of existing lies in the availability zone of new
subnetIsUsable(new, existing) ==
    \A n \in 1..Len(existing) : new.AvailabilityZone # existing[n].AvailabilityZone

\* the body of the loops over the tag index, for one tag of one subnet
ClusterSubnetsVisit(c, key, acc, arn, tag) ==
    IF tag.Key # key THEN acc
    ELSE LET subnetID == arn[Len(arn)]
             item == CacheGet(c, "ClusterSubnets", subnetID)
             seen == [acc EXCEPT !.reads = Append(@, subnetID)]
         IN  IF item # NilValue
               THEN IF subnetIsUsable(item, acc.useableSubnets)
                      THEN [seen EXCEPT !.useableSubnets = Append(@, item),
                                        !.out = Append(@, item.SubnetId)]
                      ELSE seen
               ELSE [seen EXCEPT !.filterValues = Append(@, subnetID)]

RECURSIVE ClusterSubnetsTags(_, _, _, _, _)
ClusterSubnetsTags(c, key, acc, arn, tags) ==
    IF tags = <<>> THEN acc
    ELSE ClusterSubnetsTags(c, key, ClusterSubnetsVisit(c, key, acc, arn, Head(tags)),
                            arn, Tail(tags))

\* the loop over the subnets of the tag index
RECURSIVE ClusterSubnetsScan(_, _, _, _)
ClusterSubnetsScan(c, key, acc, resources) ==
    IF resources = <<>> THEN acc
    ELSE ClusterSubnetsScan(c, key,
            ClusterSubnetsTags(c, key, acc, Head(resources).arn, Head(resources).tags),
            Tail(resources))

ClusterSubnetsStart == [useableSubnets |-> <<>>, out |-> <<>>, filterValues |-> <<>>,
                        reads |-> <<>>]

\* the loop over the fetched subnets: a usable one is admitted and cached
RECURSIVE ClusterSubnetsAdmit(_, _)
ClusterSubnetsAdmit(acc, subnets) ==
    IF subnets = <<>> THEN acc
    ELSE IF subnetIsUsable(Head(subnets), acc.useableSubnets)
      THEN ClusterSubnetsAdmit(
             [useableSubnets |-> Append(acc.useableSubnets, Head(subnets)),
              out |-> Append(acc.out, Head(subnets).SubnetId),
              cache |-> CacheSet(acc.cache, "ClusterSubnets", Head(subnets).SubnetId,
                                 Head(subnets), ClusterSubnetsCacheTTL)],
             Tail(subnets))
      ELSE ClusterSubnetsAdmit(acc, Tail(subnets))

\* the ids of the model in ascending lexicographic order
SubnetIdOrder == <<"subnet-001", "subnet-002", "subnet-003", "subnet-004">>
StringLess(a, b) ==
    \E i, j \in 1..Len(SubnetIdOrder) : SubnetIdOrder[i] = a /\ SubnetIdOrder[j] = b /\ i < j

\* sort.Sort on util.AWSStringSlice
RECURSIVE SortInsert(_, _)
SortInsert(sorted, x) ==
    IF sorted = <<>> THEN <<x>>
    ELSE IF StringLess(x, Head(sorted)) THEN <<x>> \o sorted
    ELSE <<Head(sorted)>> \o SortInsert(Tail(sorted), x)
RECURSIVE Sort(_)
Sort(q) == IF q = <<>> THEN <<>> ELSE SortInsert(Sort(Tail(q)), Head(q))

\* the filter values ClusterSubnets queries for, given the cache and the
\* answer of the tag index; none when it issues no query
ClusterSubnetsQuery(c, scheme, resources) ==
    IF ClusterSubnetsKey(scheme).err # NoErr \/ resources.err # NoErr THEN <<>>
    ELSE ClusterSubnetsScan(c, ClusterSubnetsKey(scheme).key, ClusterSubnetsStart,
                            resources.Subnets).filterValues

\* answers of DescribeSubnets to a query by subnet id: an error, or the
\* subnets of the inventory with one of the ids, in any order
DescribeSubnetsByIdOutputs(filterValues) ==
    LET found == {sn \in Range(Inventory) : sn.SubnetId \in Range(filterValues)}
    IN  IF filterValues = <<>> THEN {[err |-> NoErr, Subnets |-> <<>>]}
        ELSE {[err |-> Err("RequestError", <<>>), Subnets |-> <<>>]}
             \cup {[err |-> NoErr, Subnets |-> q] :
                     q \in {r \in [1..Cardinality(found) -> found] :
                               \A i, j \in 1..Len(r) : i # j => r[i] # r[j]}}

\* what ClusterSubnets leaves behind: the return values, the remote calls,
\* and the keys it looked up in the cache
ClusterSubnetsReturn(scheme, val, err, calls, reads) ==
    [op |-> "ClusterSubnets", arg |-> scheme, val |-> val, err |-> err, calls |-> calls,
     reads |-> reads]

\* mutant: the all-cached return skips the sort
ClusterSubnetsAllCached_unsorted(out) == [val |-> StringSlice(out), err |-> NoErr]

\* the return of ClusterSubnets when nothing is left to query
ClusterSubnetsAllCached(out) == [val |-> StringSlice(Sort(out)), err |-> NoErr]

ClusterSubnets(scheme, resources, o) ==
    LET k == ClusterSubnetsKey(scheme)
        callRGT == [api |-> "GetClusterResources", out |-> resources.Subnets]
        scan == ClusterSubnetsScan(cache, k.key, ClusterSubnetsStart, resources.Subnets)
        callEC2 == [api |-> "DescribeSubnets", subnetId |-> scan.filterValues]
        done == ClusterSubnetsAdmit([useableSubnets |-> scan.useableSubnets,
                                     out |-> scan.out, cache |-> cache], o.Subnets)
    IN  /\ Running
        /\ IF k.err # NoErr
             THEN /\ ret' = ClusterSubnetsReturn(scheme, NilValue, k.err, <<>>, <<>>)
                  /\ UNCHANGED cache
           ELSE IF resources.err # NoErr
             THEN /\ ret' = ClusterSubnetsReturn(scheme, NilValue,
                                Err("Failed to get AWS tags", <<>>), <<callRGT>>, <<>>)
                  /\ UNCHANGED cache
           ELSE IF Len(scan.filterValues) = 0
             THEN /\ ret' = ClusterSubnetsReturn(scheme, ClusterSubnetsAllCached(scan.out).val,
                                ClusterSubnetsAllCached(scan.out).err, <<callRGT>>, scan.reads)
                  /\ UNCHANGED cache
           ELSE IF o.err # NoErr
             THEN /\ ret' = ClusterSubnetsReturn(scheme, NilValue,
                                Err("Unable to fetch subnets", scan.filterValues),
                                <<callRGT, callEC2>>, scan.reads)
                  /\ UNCHANGED cache
           ELSE IF Len(done.out) < 2
             THEN /\ ret' = ClusterSubnetsReturn(scheme, NilValue,
                                Err("Retrieval of subnets failed to resolve 2 qualified subnets",
                                    <<tagNameCluster, tagNameSubnetInternalELB>> \o done.out),
                                <<callRGT, callEC2>>, scan.reads)
                  /\ cache' = done.cache
           ELSE /\ ret' = ClusterSubnetsReturn(scheme, StringSlice(Sort(done.out)), NoErr,
                                               <<callRGT, callEC2>>, scan.reads)
                /\ cache' = done.cache
        /\ UNCHANGED <<AWS_VPC_ID, fetched, req, callers>>

(***************************************************************************)
(* Node health checker                                                     *)
(***************************************************************************)
IsNodeHealthyCacheTTL == 5
\* mutant: the code of the stopped state is taken for the running code
InstanceStateRunning_stopped == 64 + 16

\* the state code of a running instance
InstanceStateRunning == 16

InstanceIds == {"i-1", "i-2"}
StateCodes == {0, 16, 80}            \* pending, running, stopped

InstanceStatus(id, code) == [InstanceId |-> id, Code |-> code]
InstanceStatuses == {InstanceStatus(i, c) : i \in InstanceIds, c \in StateCodes}

\* answers of DescribeInstanceStatus: an error, or a list of up to 2 statuses
DescribeInstanceStatusOutputs ==
    {[err |-> Err("RequestError", <<>>), InstanceStatuses |-> <<>>]}
    \cup {[err |-> NoErr, InstanceStatuses |-> <<>>]}
    \cup {[err |-> NoErr, InstanceStatuses |-> <<a>>] : a \in InstanceStatuses}
    \cup {[err |-> NoErr, InstanceStatuses |-> <<a, b>>] : a, b \in InstanceStatuses}

\* the statuses of the answer that are about instanceid, in order
RECURSIVE StatusesOf(_, _)
StatusesOf(statuses, instanceid) ==
    IF statuses = <<>> THEN <<>>
    ELSE IF Head(statuses).InstanceId # instanceid
      THEN StatusesOf(Tail(statuses), instanceid)
      ELSE <<Head(statuses)>> \o StatusesOf(Tail(statuses), instanceid)

\* mutant: the default verdict is cached as well
IsNodeHealthyAbsent_cached(c, instanceid) ==
    CacheSet(c, "ec2.IsNodeHealthy", instanceid, Bool(FALSE), IsNodeHealthyCacheTTL)

\* the cache IsNodeHealthy leaves when the answer has no status of instanceid
IsNodeHealthyAbsent(c, instanceid) == c

IsNodeHealthy(instanceid, o) ==
    LET cacheName == "ec2.IsNodeHealthy"
        item == CacheGet(cache, cacheName, instanceid)
        call == [api |-> "DescribeInstanceStatus", InstanceIds |-> <<instanceid>>,
                 out |-> o.InstanceStatuses]
        own == StatusesOf(o.InstanceStatuses, instanceid)
    IN  /\ Running
        /\ IF item # NilValue
             THEN /\ IF item.type = "bool"
                       THEN ret' = Return("IsNodeHealthy", instanceid, item, NoErr, <<>>)
                       ELSE ret' = Return("IsNodeHealthy", instanceid, NilValue, Panic, <<>>)
                  /\ UNCHANGED <<cache, fetched>>
           ELSE IF o.err # NoErr
             THEN /\ ret' = Return("IsNodeHealthy", instanceid, Bool(FALSE),
                                   Err("Unable to DescribeInstanceStatus", <<instanceid>>), <<call>>)
                  /\ UNCHANGED <<cache, fetched>>
           ELSE IF own # <<>>
             THEN LET verdict == Bool(own[1].Code = InstanceStateRunning)
                  IN  /\ cache' = CacheSet(cache, cacheName, instanceid, verdict,
                                           IsNodeHealthyCacheTTL)
                      /\ ret' = Return("IsNodeHealthy", instanceid, verdict, NoErr, <<call>>)
                      /\ fetched' = Fetched(fetched, "IsNodeHealthy", instanceid, verdict,
                                            IsNodeHealthyCacheTTL)
           ELSE /\ cache' = IsNodeHealthyAbsent(cache, instanceid)
                /\ ret' = Return("IsNodeHealthy", instanceid, Bool(FALSE), NoErr, <<call>>)
                /\ UNCHANGED fetched
        /\ UNCHANGED <<AWS_VPC_ID, req, callers>>

(***************************************************************************)
(* Security group deletion: the request of DeleteSecurityGroupByID is sent *)
(* by the SDK's request loop, which after a failed attempt asks the        *)
(* request's Retryer.  The Retryer is deleteSecurityGroupRetryer wrapped    *)
(* around the Retryer the client was built with.                           *)
(***************************************************************************)
WrappedMaxRetriesBound == 3          \* the wrapped Retryer allows 0..this many retries

GroupIds == {"sg-1"}
ErrorCodes == {"DependencyViolation", "RequestLimitExceeded", "InvalidGroup.NotFound"}
AttemptOutcomes == {NoErr} \cup {Err(c, <<>>) : c \in ErrorCodes}

\* the Retryers a client can be built with: which failures they retry, how often
WrappedRetryers ==
    [retryable : SUBSET ErrorCodes, MaxRetries : 0..WrappedMaxRetriesBound]

NoRequest == [state |-> "none"]

\* deleteSecurityGroupRetryer.ShouldRetry
ShouldRetry(wrapped, error) ==
    IF error.code = "DependencyViolation"
      THEN TRUE
      ELSE error.code \in wrapped.retryable

\* mutant: the bound is off by one
MaxRetries_oneMore == 20 + 1

\* deleteSecurityGroupRetryer.MaxRetries
MaxRetries == 20

\* request.Request.WillRetry, asked by the request loop after a failed attempt
WillRetry(retryable, retryCount) == retryable /\ retryCount < MaxRetries

\* DeleteSecurityGroupByID builds the request and installs the retryer
DeleteSecurityGroupByID(sgID, wrapped) ==
    /\ Running
    /\ req.state \in {"none", "done"}
    /\ req' = [state |-> "sending", GroupId |-> sgID, Retryer |-> wrapped,
               RetryCount |-> 0, attempts |-> 0, failures |-> {},
               Error |-> NoErr, retried |-> FALSE]
    /\ UNCHANGED <<cache, AWS_VPC_ID, ret, fetched, callers>>

\* one attempt of the request loop: the delete call is sent and answered with
\* outcome; on a failure the Retryer decides between another attempt and
\* returning the error
SendDeleteSecurityGroup(outcome) ==
    /\ Running
    /\ req.state = "sending"
    /\ LET retry == /\ outcome # NoErr
                    /\ WillRetry(ShouldRetry(req.Retryer, outcome), req.RetryCount)
           sent == [req EXCEPT !.attempts = @ + 1,
                               !.Error = outcome,
                               !.failures = IF outcome = NoErr THEN @ ELSE @ \cup {outcome.code},
                               !.retried = retry]
       IN  IF retry
             THEN /\ req' = [sent EXCEPT !.RetryCount = @ + 1]
                  /\ UNCHANGED ret
             ELSE /\ req' = [sent EXCEPT !.state = "done"]
                  /\ ret' = Return("DeleteSecurityGroupByID", req.GroupId, NilValue, outcome,
                                   [n \in 1..sent.attempts |->
                                      [api |-> "DeleteSecurityGroup", GroupId |-> req.GroupId]])
    /\ UNCHANGED <<cache, AWS_VPC_ID, fetched, callers>>

InitDelete ==
    /\ cache = NoEntries
    /\ AWS_VPC_ID = ""
    /\ ret = NoReturn
    /\ fetched = NoEntries
    /\ req = NoRequest
    /\ callers = NoCallers

NextDelete ==
    \/ \E g \in GroupIds, w \in WrappedRetryers : DeleteSecurityGroupByID(g, w)
    \/ \E e \in AttemptOutcomes : SendDeleteSecurityGroup(e)

SpecDelete == InitDelete /\ [][NextDelete]_vars

InitVPC ==
    /\ cache = NoEntries
    /\ AWS_VPC_ID \in EnvValues
    /\ ret = NoReturn
    /\ fetched = NoEntries
    /\ req = NoRequest
    /\ callers = NoCallers

VPCTickSteps == {20, 40}

NextVPC ==
    \/ \E doc \in IdentityDocuments, o \in DescribeInstancesOutputs : GetVPCID(doc, o)
    \/ \E id \in VpcIds : \E o \in DescribeVpcsOutputs(id) : GetVPC(id, o)
    \/ \E d \in VPCTickSteps : Tick(d)

SpecVPC == InitVPC /\ [][NextVPC]_vars

InitHealth ==
    /\ cache = NoEntries
    /\ AWS_VPC_ID = ""
    /\ ret = NoReturn
    /\ fetched = NoEntries
    /\ req = NoRequest
    /\ callers = NoCallers

HealthTickSteps == {2, 3}

NextHealth ==
    \/ \E i \in InstanceIds, o \in DescribeInstanceStatusOutputs : IsNodeHealthy(i, o)
    \/ \E d \in HealthTickSteps : Tick(d)

SpecHealth == InitHealth /\ [][NextHealth]_vars

InitSubnets ==
    /\ cache = NoEntries
    /\ AWS_VPC_ID \in EnvValues
    /\ ret = NoReturn
    /\ fetched = NoEntries
    /\ req = NoRequest
    /\ callers = NoCallers

SubnetsTickSteps == {30}
RequestErrors == {NoErr, Err("RequestError", <<>>)}

NextSubnets ==
    \/ \E names \in NameLists, doc \in IdentityDocuments, o \in DescribeInstancesOutputs,
          e \in RequestErrors : GetSubnets(names, doc, o, e)
    \/ \E d \in SubnetsTickSteps : Tick(d)

SpecSubnets == InitSubnets /\ [][NextSubnets]_vars

InitCluster ==
    /\ cache = NoEntries
    /\ AWS_VPC_ID = ""
    /\ ret = NoReturn
    /\ fetched = NoEntries
    /\ req = NoRequest
    /\ callers = NoCallers

ClusterTickSteps == {60}

NextCluster ==
    \/ \E scheme \in Schemes, resources \in ClusterResourcesOutputs :
          \E o \in DescribeSubnetsByIdOutputs(ClusterSubnetsQuery(cache, scheme, resources)) :
             ClusterSubnets(scheme, resources, o)
    \/ \E d \in ClusterTickSteps : Tick(d)

SpecCluster == InitCluster /\ [][NextCluster]_vars

(***************************************************************************)
(* Security group resolver: GetSecurityGroups                              *)
(***************************************************************************)
GetSecurityGroupsCacheTTL == 60

SecurityGroup(id, name, vpc, tags) ==
    [type |-> "*ec2.SecurityGroup", GroupId |-> id, GroupName |-> name, VpcId |-> vpc,
     Tags |-> tags]

\* the security groups of the remote inventory; Name tags are not unique
GroupInventory ==
    << SecurityGroup("sg-001", "web", "vpc-1", <<Tag("Name", "sg-a")>>),
       SecurityGroup("sg-002", "db", "vpc-1", <<Tag("Name", "sg-b")>>),
       SecurityGroup("sg-003", "db-old", "vpc-1", <<Tag("Name", "sg-b")>>),
       SecurityGroup("sg-004", "default", "vpc-1", <<>>) >>

GroupTagNames == {"sg-a", "sg-b"}
GroupNameLists ==
    {q \in UNION {[1..n -> GroupTagNames] : n \in 0..MaxNames} :
        \A i, j \in 1..Len(q) : i # j => q[i] # q[j]}

\* the answer of DescribeSecurityGroups to a query by Name tag and VPC id
DescribeSecurityGroupsByName(tagNames, vpcID) ==
    SelectSeq(GroupInventory, LAMBDA sg : /\ EC2TagsGet(sg.Tags, "Name").ok
                                          /\ EC2TagsGet(sg.Tags, "Name").value \in Range(tagNames)
                                          /\ sg.VpcId = vpcID)

\* the loop over the requested names: cached ids and names to query
RECURSIVE GetSecurityGroupsPartition(_, _)
GetSecurityGroupsPartition(c, names) ==
    IF names = <<>> THEN [sgs |-> <<>>, queryNames |-> <<>>]
    ELSE LET item == CacheGet(c, "EC2.GetSecurityGroups", Head(names))
             rest == GetSecurityGroupsPartition(c, Tail(names))
         IN  IF item # NilValue
               THEN [rest EXCEPT !.sgs = <<item.s>> \o @]
               ELSE [rest EXCEPT !.queryNames = <<Head(names)>> \o @]

\* the loop over the answer: every group is cached under the value of its
\* Name tag and appended
RECURSIVE GetSecurityGroupsCollect(_, _)
GetSecurityGroupsCollect(acc, found) ==
    IF found = <<>> THEN acc
    ELSE LET name == EC2TagsGet(Head(found).Tags, "Name").value
         IN  GetSecurityGroupsCollect(
               [cache |-> CacheSet(acc.cache, "EC2.GetSecurityGroups", name,
                                   String(Head(found).GroupId), GetSecurityGroupsCacheTTL),
                sgs |-> Append(acc.sgs, Head(found).GroupId)],
               Tail(found))

\* bookkeeping: the last call of op that queried the remote API, and its result
LastFetched(op, key, val, ttl) ==
    [k \in {<<op, key>>} |-> [val |-> val, age |-> 0, ttl |-> ttl]]

\* doc and o answer the calls of GetVPCID, describeErr is the error of
\* DescribeSecurityGroups (NoErr: it answers from the inventory)
GetSecurityGroups(names, doc, o, describeErr) ==
    LET vpc == GetVPCIDResult(cache, AWS_VPC_ID, doc, o)
        part == GetSecurityGroupsPartition(vpc.cache, names)
        call == [api |-> "DescribeSecurityGroups", tagName |-> part.queryNames,
                 vpcId |-> vpc.ret.val.s]
        done == GetSecurityGroupsCollect([cache |-> vpc.cache, sgs |-> part.sgs],
                                         DescribeSecurityGroupsByName(call.tagName, call.vpcId))
    IN  /\ Running
        /\ IF vpc.ret.err # NoErr
             THEN /\ ret' = Return("GetSecurityGroups", names, StringSlice(<<>>), vpc.ret.err,
                                   vpc.ret.calls)
                  /\ cache' = vpc.cache
                  /\ UNCHANGED fetched
           ELSE IF Len(part.queryNames) = 0
             THEN /\ ret' = Return("GetSecurityGroups", names, StringSlice(part.sgs), NoErr,
                                   vpc.ret.calls)
                  /\ cache' = vpc.cache
                  /\ UNCHANGED fetched
           ELSE IF describeErr # NoErr
             THEN /\ ret' = Return("GetSecurityGroups", names, StringSlice(part.sgs),
                                   Err("Unable to fetch security groups", <<>>),
                                   Append(vpc.ret.calls, call))
                  /\ cache' = vpc.cache
                  /\ UNCHANGED fetched
           ELSE /\ ret' = Return("GetSecurityGroups", names, StringSlice(done.sgs), NoErr,
                                 Append(vpc.ret.calls, call))
                /\ cache' = done.cache
                /\ fetched' = LastFetched("GetSecurityGroups", names, StringSlice(done.sgs),
                                          GetSecurityGroupsCacheTTL)
        /\ UNCHANGED <<AWS_VPC_ID, req, callers>>

InitGroups ==
    /\ cache = NoEntries
    /\ AWS_VPC_ID \in EnvValues
    /\ ret = NoReturn
    /\ fetched = NoEntries
    /\ req = NoRequest
    /\ callers = NoCallers

GroupsTickSteps == {30}

NextGroups ==
    \/ \E names \in GroupNameLists, doc \in IdentityDocuments, o \in DescribeInstancesOutputs,
          e \in RequestErrors : GetSecurityGroups(names, doc, o, e)
    \/ \E d \in GroupsTickSteps : Tick(d)

SpecGroups == InitGroups /\ [][NextGroups]_vars

(***************************************************************************)
(* Paginated lookups: GetInstancesByID, GetSecurityGroupByID and           *)
(* GetSecurityGroupByName.  The remote API answers a describe call page by *)
(* page; the answers to the page requests are the input pages, each an     *)
(* error or a list of records.                                             *)
(***************************************************************************)
MaxPages == 2                        \* a describe call is answered in up to this many pages

Page(err, items) == [err |-> err, items |-> items]
PageErrors == {Err("RequestError", <<>>), Err("RequestLimitExceeded", <<>>)}

\* the ways to cut the list q into n consecutive pages, empty pages included
RECURSIVE Splits(_, _)
Splits(q, n) ==
    IF n = 0 THEN IF q = <<>> THEN {<<>>} ELSE {}
    ELSE UNION {{<<SubSeq(q, 1, k)>> \o rest : rest \in Splits(SubSeq(q, k + 1, Len(q)), n - 1)} :
                   k \in 0..Len(q)}

\* the answers to the page requests of one describe call for the matching
\* records: all of them over 1..MaxPages pages, or some first pages followed
\* by a page request that fails
Pages(matching) ==
    {[i \in 1..Len(cut) |-> Page(NoErr, cut[i])] :
        cut \in UNION {Splits(matching, n) : n \in 1..MaxPages}}
    \cup {Append([i \in 1..Len(cut) |-> Page(NoErr, cut[i])], Page(e, <<>>)) :
            cut \in UNION {Splits(SubSeq(matching, 1, k), n) :
                              k \in 0..Len(matching), n \in 0..(MaxPages - 1)},
            e \in PageErrors}

\* the loop `for p.Next()` of describeSecurityGroupsHelper: the records of
\* the pages are accumulated until a page request fails or no page is left;
\* the accumulated records are returned together with the error
RECURSIVE describeSecurityGroupsHelper(_, _)
describeSecurityGroupsHelper(acc, pages) ==
    IF pages = <<>> THEN acc
    ELSE IF Head(pages).err # NoErr
      THEN [acc EXCEPT !.err = Head(pages).err, !.sent = Append(@, Head(pages))]
    ELSE describeSecurityGroupsHelper(
           [acc EXCEPT !.results = @ \o Head(pages).items, !.sent = Append(@, Head(pages))],
           Tail(pages))

\* describeInstancesHelper: DescribeInstancesPages hands every page to the
\* callback, which accumulates its reservations, and returns the error of a
\* failed page request
RECURSIVE describeInstancesHelper(_, _)
describeInstancesHelper(acc, pages) ==
    IF pages = <<>> THEN acc
    ELSE IF Head(pages).err # NoErr
      THEN [acc EXCEPT !.err = Head(pages).err, !.sent = Append(@, Head(pages))]
    ELSE describeInstancesHelper(
           [acc EXCEPT !.results = @ \o Head(pages).items, !.sent = Append(@, Head(pages))],
           Tail(pages))

HelperStart == [results |-> <<>>, err |-> NoErr, sent |-> <<>>]

\* the page requests a helper sent, as calls of the API
PageCalls(api, query, sent) ==
    [n \in 1..Len(sent) |-> [api |-> api, query |-> query, err |-> sent[n].err,
                             out |-> sent[n].items]]

\* the instances of the remote inventory, one reservation each
InstanceOf(id) == [type |-> "*ec2.Instance", InstanceId |-> id, VpcId |-> "vpc-1"]
ReservationInventory == << <<InstanceOf("i-1")>>, <<InstanceOf("i-2")>> >>
InstanceIdLists == {<<"i-1">>, <<"i-2">>, <<"i-1", "i-2">>, <<"i-9">>}

DescribeInstancesById(instanceIDs) ==
    SelectSeq(ReservationInventory, LAMBDA r : r[1].InstanceId \in Range(instanceIDs))

DescribeSecurityGroupsById(sgID) ==
    SelectSeq(GroupInventory, LAMBDA sg : sg.GroupId = sgID)

DescribeSecurityGroupsByGroupName(vpcID, sgName) ==
    SelectSeq(GroupInventory, LAMBDA sg : sg.VpcId = vpcID /\ sg.GroupName = sgName)

LookupGroupIds == {"sg-001", "sg-002", "sg-003", "sg-999"}
LookupGroupNames == {"web", "db", "none"}
LookupVpcIds == {"vpc-1", "vpc-2"}

\* result = append(result, reservation.Instances...) over the reservations
RECURSIVE Flatten(_)
Flatten(reservations) ==
    IF reservations = <<>> THEN <<>> ELSE Head(reservations) \o Flatten(Tail(reservations))

Instances(q) == [type |-> "[]*ec2.Instance", elems |-> q]

\* mutant: the records of the pages fetched before the failure are returned
GetInstancesByIDResult_partial(h) ==
    IF h.err # NoErr THEN [val |-> Instances(Flatten(h.results)), err |-> h.err]
    ELSE [val |-> Instances(Flatten(h.results)), err |-> NoErr]

\* what GetInstancesByID returns, given the return of the helper
GetInstancesByIDResult(h) ==
    IF h.err # NoErr THEN [val |-> NilValue, err |-> h.err]
    ELSE [val |-> Instances(Flatten(h.results)), err |-> NoErr]

GetInstancesByID(instanceIDs, pages) ==
    LET h == describeInstancesHelper(HelperStart, pages)
    IN  /\ Running
        /\ ret' = Return("GetInstancesByID", instanceIDs, GetInstancesByIDResult(h).val,
                         GetInstancesByIDResult(h).err,
                         PageCalls("DescribeInstances", instanceIDs, h.sent))
        /\ UNCHANGED <<cache, AWS_VPC_ID, fetched, req, callers>>

\* what GetSecurityGroupByID and GetSecurityGroupByName return, given the
\* return of the helper
GetSecurityGroupResult(h) ==
    IF h.err # NoErr THEN [val |-> NilValue, err |-> h.err]
    ELSE IF Len(h.results) = 0 THEN [val |-> NilValue, err |-> NoErr]
    ELSE [val |-> h.results[1], err |-> NoErr]

GetSecurityGroupByID(sgID, pages) ==
    LET h == describeSecurityGroupsHelper(HelperStart, pages)
    IN  /\ Running
        /\ ret' = Return("GetSecurityGroupByID", sgID, GetSecurityGroupResult(h).val,
                         GetSecurityGroupResult(h).err,
                         PageCalls("DescribeSecurityGroups", <<sgID>>, h.sent))
        /\ UNCHANGED <<cache, AWS_VPC_ID, fetched, req, callers>>

GetSecurityGroupByName(vpcID, sgName, pages) ==
    LET h == describeSecurityGroupsHelper(HelperStart, pages)
    IN  /\ Running
        /\ ret' = Return("GetSecurityGroupByName", <<vpcID, sgName>>,
                         GetSecurityGroupResult(h).val, GetSecurityGroupResult(h).err,
                         PageCalls("DescribeSecurityGroups", <<vpcID, sgName>>, h.sent))
        /\ UNCHANGED <<cache, AWS_VPC_ID, fetched, req, callers>>

InitPages ==
    /\ cache = NoEntries
    /\ AWS_VPC_ID = ""
    /\ ret = NoReturn
    /\ fetched = NoEntries
    /\ req = NoRequest
    /\ callers = NoCallers

NextPages ==
    \/ \E ids \in InstanceIdLists : \E pages \in Pages(DescribeInstancesById(ids)) :
          GetInstancesByID(ids, pages)
    \/ \E sgID \in LookupGroupIds : \E pages \in Pages(DescribeSecurityGroupsById(sgID)) :
          GetSecurityGroupByID(sgID, pages)
    \/ \E vpcID \in LookupVpcIds, sgName \in LookupGroupNames :
          \E pages \in Pages(DescribeSecurityGroupsByGroupName(vpcID, sgName)) :
             GetSecurityGroupByName(vpcID, sgName, pages)

SpecPages == InitPages /\ [][NextPages]_vars

(***************************************************************************)
(* Concurrent callers of GetVPC.  The cache is safe for concurrent use,    *)
(* but GetVPC holds no lock between its cache read, its DescribeVpcs call  *)
(* and its cache write: each of the three is a step of its own, and the    *)
(* steps of the callers interleave.                                        *)
(***************************************************************************)
Callers == {"c1", "c2"}

\* a caller that is not inside GetVPC
Idle == [pc |-> "idle", id |-> Nil, val |-> NilValue, err |-> NoErr, describes |-> 0,
         out |-> <<>>]

\* the remote inventory holds one VPC per id and does not change while the
\* callers run
VpcInventory(id) == Vpc(id, "10.0.0.0/16")
ConcurrentDescribeVpcsOutputs(id) ==
    {o \in DescribeVpcsOutputs(id) : \A n \in 1..Len(o.Vpcs) : o.Vpcs[n] = VpcInventory(id)}

\* mutant: a cache hit returns no descriptor
GetVPCHit_nothing(item) == NilValue

\* the descriptor GetVPC returns on a cache hit
GetVPCHit(item) == item

\* caller p enters GetVPC(id) and reads the cache: a hit returns at once
GetVPCGet(p, id) ==
    LET item == CacheGet(cache, "EC2.GetVPCID", id)
        start == [Idle EXCEPT !.id = id]
    IN  /\ Running
        /\ callers[p].pc \in {"idle", "done"}
        /\ callers' = [callers EXCEPT ![p] =
              IF item = NilValue THEN [start EXCEPT !.pc = "describe"]
              ELSE IF item.type = "*ec2.Vpc"
                THEN [start EXCEPT !.pc = "done", !.val = GetVPCHit(item)]
              ELSE [start EXCEPT !.pc = "done", !.err = Panic]]
        /\ UNCHANGED <<cache, AWS_VPC_ID, ret, fetched, req>>

\* caller p gets the answer o of its DescribeVpcs call
GetVPCDescribe(p, o) ==
    LET described == [callers[p] EXCEPT !.describes = @ + 1, !.out = o.Vpcs]
    IN  /\ Running
        /\ callers[p].pc = "describe"
        /\ callers' = [callers EXCEPT ![p] =
              IF o.err # NoErr THEN [described EXCEPT !.pc = "done", !.err = o.err]
              ELSE IF ~GetVPCCountOK(Len(o.Vpcs))
                THEN [described EXCEPT !.pc = "done",
                        !.err = Err("Invalid amount of VPCs",
                                    <<ToString(Len(o.Vpcs)), callers[p].id>>)]
              ELSE [described EXCEPT !.pc = "set"]]
        /\ UNCHANGED <<cache, AWS_VPC_ID, ret, fetched, req>>

\* caller p writes the descriptor it fetched to the cache and returns it
GetVPCSet(p) ==
    /\ Running
    /\ callers[p].pc = "set"
    /\ cache' = GetVPCStore(cache, callers[p].id, callers[p].out[1])
    /\ callers' = [callers EXCEPT ![p] = [@ EXCEPT !.pc = "done", !.val = callers[p].out[1]]]
    /\ UNCHANGED <<AWS_VPC_ID, ret, fetched, req>>

InitConcurrent ==
    /\ cache = NoEntries
    /\ AWS_VPC_ID = ""
    /\ ret = NoReturn
    /\ fetched = NoEntries
    /\ req = NoRequest
    /\ callers = [p \in Callers |-> Idle]

NextConcurrent ==
    \/ \E p \in Callers, id \in VpcIds : GetVPCGet(p, id)
    \/ \E p \in Callers : \E o \in ConcurrentDescribeVpcsOutputs(callers[p].id) :
          GetVPCDescribe(p, o)
    \/ \E p \in Callers : GetVPCSet(p)

SpecConcurrent == InitConcurrent /\ [][NextConcurrent]_vars

(***************************************************************************)
(* Properties of the VPC locator                                           *)
(***************************************************************************)
\* the step is a call of op (every operation leaves its name in ret; only
\* the passing of time leaves ret alone)
TimePasses ==
    \E d \in VPCTickSteps \cup HealthTickSteps \cup SubnetsTickSteps \cup ClusterTickSteps
               \cup GroupsTickSteps : Tick(d)
Called(op) == ret'.op = op /\ ~TimePasses

\* the calls of r are exactly one call of api with the given ids
IssuedOne(r, api, ids) ==
    Len(r.calls) = 1 /\ r.calls[1].api = api /\ r.calls[1][ids[1]] = ids[2]

\* C7: once GetVPC(id) has fetched a descriptor, every GetVPC(id) call made
\* less than 60 minutes later returns that same descriptor without error and
\* issues no DescribeVpcs call; the fetching call itself issued exactly one.
C7_GetVPCServedFromCache ==
    [][\A id \in VpcIds :
         (Called("GetVPC") /\ ret'.arg = id) =>
           /\ (<<"GetVPC", id>> \in DOMAIN fetched /\ fetched[<<"GetVPC", id>>].age < 60) =>
                 /\ ret'.err = NoErr
                 /\ ret'.val = fetched[<<"GetVPC", id>>].val
                 /\ ret'.calls = <<>>
           /\ (ret'.err = NoErr /\ ret'.calls # <<>>) =>
                 IssuedOne(ret', "DescribeVpcs", <<"VpcIds", <<id>> >>)]_vars

\* a GetVPC call answered from the cache 40 minutes after the fetch
C7_Witness ==
    /\ ret.op = "GetVPC" /\ ret.err = NoErr /\ ret.calls = <<>>
    /\ <<"GetVPC", ret.arg>> \in DOMAIN fetched
    /\ fetched[<<"GetVPC", ret.arg>>].age = 40
    /\ ret.val = fetched[<<"GetVPC", ret.arg>>].val

\* C8: with a non-empty AWS_VPC_ID, GetVPCID returns exactly that value,
\* issues no metadata call and no DescribeInstances call, and leaves the
\* cache as it was, whatever the cache holds.
C8_GetVPCIDOverride ==
    [][(Called("GetVPCID") /\ AWS_VPC_ID # "") =>
           /\ ret'.val = String(AWS_VPC_ID)
           /\ ret'.err = NoErr
           /\ ret'.calls = <<>>
           /\ cache' = cache]_vars

\* GetVPCID answered from the override while the cache holds an entry under
\* the very key GetVPCID would read
C8_Witness ==
    /\ AWS_VPC_ID # ""
    /\ ret.op = "GetVPCID" /\ ret.val = String(AWS_VPC_ID) /\ ret.calls = <<>>
    /\ <<"EC2.GetVPCID", "">> \in DOMAIN cache

\* the last operation was GetVPC(id), it reached DescribeVpcs and the answer
\* was a list of other than one VPC
AnsweredWithWrongCount(r, id) ==
    /\ r.op = "GetVPC" /\ r.arg = id
    /\ r.calls # <<>>
    /\ r.err.code # "RequestError"
    /\ Len(r.calls[1].out) # 1

\* C10: when DescribeVpcs answers with a number of VPCs other than 1, GetVPC
\* returns an error and no descriptor and writes no cache entry, and the
\* GetVPC call for the same id that follows issues DescribeVpcs again.
C10_GetVPCCardinality ==
    [][\A id \in VpcIds :
         (Called("GetVPC") /\ ret'.arg = id) =>
           /\ AnsweredWithWrongCount(ret', id) =>
                 /\ ret'.err \notin {NoErr, Panic}
                 /\ ret'.val = NilValue
                 /\ cache' = cache
           /\ AnsweredWithWrongCount(ret, id) =>
                 IssuedOne(ret', "DescribeVpcs", <<"VpcIds", <<id>> >>)]_vars

\* GetVPC failed on an answer of two VPCs and the id is still not cached
C10_Witness ==
    /\ AnsweredWithWrongCount(ret, ret.arg)
    /\ Len(ret.calls[1].out) = 2
    /\ ret.err.code = "Invalid amount of VPCs"
    /\ <<"EC2.GetVPCID", ret.arg>> \notin DOMAIN cache


(***************************************************************************)
(* Properties of the node health checker                                   *)
(***************************************************************************)
\* the last operation was IsNodeHealthy(i), it queried the instance status
\* and the answer had no status of i
AnsweredWithoutStatusOf(r, i) ==
    /\ r.op = "IsNodeHealthy" /\ r.arg = i
    /\ r.err = NoErr
    /\ r.calls # <<>>
    /\ \A n \in 1..Len(r.calls[1].out) : r.calls[1].out[n].InstanceId # i

\* C6: when the status answer has no entry of the requested instance id,
\* IsNodeHealthy returns false without error and leaves the cache unchanged,
\* and the IsNodeHealthy call for that id that follows queries the status
\* again.
C6_AbsentStatusNotCached ==
    [][\A i \in InstanceIds :
         (Called("IsNodeHealthy") /\ ret'.arg = i) =>
           /\ AnsweredWithoutStatusOf(ret', i) =>
                 /\ ret'.val = Bool(FALSE)
                 /\ cache' = cache
           /\ AnsweredWithoutStatusOf(ret, i) =>
                 IssuedOne(ret', "DescribeInstanceStatus", <<"InstanceIds", <<i>> >>)]_vars

\* IsNodeHealthy got an answer about another instance only, while the cache
\* holds that other instance's verdict and none of the requested one
C6_Witness ==
    /\ AnsweredWithoutStatusOf(ret, ret.arg)
    /\ ret.calls[1].out # <<>>
    /\ ret.val = Bool(FALSE)
    /\ <<"ec2.IsNodeHealthy", ret.arg>> \notin DOMAIN cache
    /\ \E j \in InstanceIds : <<"ec2.IsNodeHealthy", j>> \in DOMAIN cache

(***************************************************************************)
(* Properties of the security group deletion                               *)
(***************************************************************************)
\* every failure of the request so far carried the dependency-blocked code
OnlyDependencyViolations == req.state # "none" /\ req.failures \subseteq {"DependencyViolation"}

OtherFailure ==
    /\ req.state # "none" /\ req.attempts > 0
    /\ req.Error # NoErr /\ req.Error.code # "DependencyViolation"

\* the retries granted before the attempt just answered
RetriesBefore == IF req.retried THEN req.RetryCount - 1 ELSE req.RetryCount

\* C5 as stated: after a failure with another code the request is retried
\* exactly when the wrapped policy alone would retry it: the wrapped policy
\* calls the failure retryable and has retries left under its own maximum.
C5_SameAsWrappedPolicy ==
    OtherFailure =>
        (req.retried <=> /\ req.Error.code \in req.Retryer.retryable
                         /\ RetriesBefore < req.Retryer.MaxRetries)

\* what the retryer does instead: after a failure with another code the
\* decision whether the failure is retryable is the wrapped policy's, but the
\* maximum number of retries is 20 whatever the wrapped policy's maximum is
RetriesUpTo20WhateverTheCode ==
    OtherFailure =>
        (req.retried <=> /\ req.Error.code \in req.Retryer.retryable
                         /\ RetriesBefore < 20)


(***************************************************************************)
(* Properties of GetSubnets                                                *)
(***************************************************************************)
\* the names of q that are (hit) or are not in the cache c of GetSubnets
CachedNames(c, q, hit) ==
    SelectSeq(q, LAMBDA n : (<<"EC2.GetSubnets", n>> \in DOMAIN c) = hit)

DescribeSubnetsCalls(r) == SelectSeq(r.calls, LAMBDA call : call.api = "DescribeSubnets")

\* C3: when some of the names passed to GetSubnets are cache hits and the
\* others are misses, GetSubnets issues exactly one DescribeSubnets query,
\* filtered by exactly the missed names and the VPC id, and the result holds
\* the cached id of every hit and the fetched id of every resolved miss.
C3_QueryOnlyMisses ==
    [][(/\ Called("GetSubnets")
        /\ ret'.err = NoErr
        /\ CachedNames(cache, ret'.arg, TRUE) # <<>>
        /\ CachedNames(cache, ret'.arg, FALSE) # <<>>) =>
          LET q == DescribeSubnetsCalls(ret')
          IN  /\ Len(q) = 1
              /\ Range(q[1].tagName) = Range(CachedNames(cache, ret'.arg, FALSE))
              /\ \A n \in Range(CachedNames(cache, ret'.arg, TRUE)) :
                    cache[<<"EC2.GetSubnets", n>>].value.s \in Range(ret'.val.elems)
              /\ \A sn \in Range(DescribeSubnetsByName(
                                    CachedNames(cache, ret'.arg, FALSE), q[1].vpcId)) :
                    sn.SubnetId \in Range(ret'.val.elems)]_vars

(***************************************************************************)
(* Properties of ClusterSubnets                                            *)
(***************************************************************************)
\* the availability zone of the subnet with the id
AvailabilityZoneOf(id) ==
    (CHOOSE sn \in Range(Inventory) : sn.SubnetId = id).AvailabilityZone

ClusterSubnetsSucceeded == ret.op = "ClusterSubnets" /\ ret.err = NoErr

\* C1: a list that ClusterSubnets returns successfully, after any earlier
\* calls, has no two entries whose subnets lie in the same availability zone.
C1_OneSubnetPerZone ==
    ClusterSubnetsSucceeded =>
        \A i, j \in 1..Len(ret.val.elems) :
            i # j => AvailabilityZoneOf(ret.val.elems[i]) # AvailabilityZoneOf(ret.val.elems[j])

\* three candidates, two of them in one zone, some cached and some fetched,
\* and two subnets returned
C1_Witness ==
    /\ ClusterSubnetsSucceeded
    /\ Len(ret.reads) = 3
    /\ Len(ret.calls) = 2 /\ Len(ret.calls[2].subnetId) \in {1, 2}
    /\ Len(ret.val.elems) = 2

\* C2: ClusterSubnets returns an error and no subnet list whenever fewer than
\* 2 subnets are admitted, on every path: a list it returns without error has
\* at least 2 entries, and with an error it returns no list.
C2_FailsBelowTwoAdmitted ==
    ret.op = "ClusterSubnets" =>
        IF ret.err = NoErr THEN Len(ret.val.elems) >= 2 ELSE ret.val = NilValue

\* the ids of the subnets of the tag index answer that carry a tag with the key
CarryingTag(subnets, key) ==
    {subnets[n].arn[Len(subnets[n].arn)] :
        n \in {m \in 1..Len(subnets) : \E t \in Range(subnets[m].tags) : t.Key = key}}

\* the subnets ClusterSubnets took for candidates (looked up in the cache),
\* once it has got the answer of the tag index
Candidates(r) == Range(r.reads)
GotClusterResources(r) == r.calls # <<>> /\ r.err.code # "Failed to get AWS tags"

\* C9: for scheme "internal" ClusterSubnets selects by the internal-ELB role
\* tag key, for scheme "internet-facing" by another role tag key, and for any
\* other scheme it fails with a validation error before the tag index, the
\* cache or the remote API is accessed.
C9_SchemeSelectsRoleTag ==
    [][Called("ClusterSubnets") =>
         /\ (ret'.arg = "internal" /\ GotClusterResources(ret')) =>
               Candidates(ret') = CarryingTag(ret'.calls[1].out, "kubernetes.io/role/internal-elb")
         /\ (ret'.arg = "internet-facing" /\ GotClusterResources(ret')) =>
               /\ Candidates(ret') = CarryingTag(ret'.calls[1].out, tagNameSubnetPublicELB)
               /\ tagNameSubnetPublicELB # "kubernetes.io/role/internal-elb"
         /\ ret'.arg \notin {"internal", "internet-facing"} =>
               /\ ret'.err.code = "Invalid scheme"
               /\ ret'.val = NilValue
               /\ ret'.calls = <<>>
               /\ ret'.reads = <<>>
               /\ cache' = cache]_vars

\* a scheme that is not valid was refused while the cache held subnets
C9_Witness ==
    /\ ret.op = "ClusterSubnets" /\ ret.arg = "external"
    /\ ret.err.code = "Invalid scheme" /\ ret.calls = <<>>
    /\ \E id \in ClusterSubnetIds : <<"ClusterSubnets", id>> \in DOMAIN cache

\* q is in ascending lexicographic order
Ascending(q) == \A i, j \in 1..Len(q) : i < j => StringLess(q[i], q[j])

\* C11: every list that ClusterSubnets returns successfully is in ascending
\* lexicographic order of subnet id, on the all-cached return path and on the
\* fetched path, whatever the discovery order of the candidates was.
C11_ReturnedListAscending ==
    ClusterSubnetsSucceeded => Ascending(ret.val.elems)

\* an all-cached call that discovered its two admitted subnets in descending
\* order
C11_Witness ==
    /\ ClusterSubnetsSucceeded
    /\ Len(ret.calls) = 1
    /\ Len(ret.reads) = 2 /\ StringLess(ret.reads[2], ret.reads[1])
    /\ Len(ret.val.elems) = 2 /\ Range(ret.val.elems) = Range(ret.reads)

\* the candidates of the call in discovery order: the role-tagged subnets in
\* the order the loop over the tag index met them
DiscoveryOrder(r) == r.reads

\* C12: among the role-tagged candidates of one ClusterSubnets call that
\* share an availability zone, the one admitted is the one that comes first in
\* discovery order, whichever of them are cache hits and which are misses: no
\* admitted subnet has a candidate of its zone before it in discovery order.
C12_FirstSeenWins ==
    ClusterSubnetsSucceeded =>
        LET q == DiscoveryOrder(ret)
        IN  \A i \in 1..Len(q) :
              q[i] \in Range(ret.val.elems) =>
                 \A j \in 1..(i - 1) : AvailabilityZoneOf(q[j]) # AvailabilityZoneOf(q[i])

\* the same for calls whose candidates of one zone are a cache miss followed
\* by a cache hit: the order of the DescribeSubnets answer plays no part
C12_FirstSeenWinsHitAfterMiss ==
    (/\ ClusterSubnetsSucceeded
     /\ Len(ret.calls) = 2 /\ Len(ret.calls[2].subnetId) = 1
     /\ Len(ret.reads) = 3) => C12_FirstSeenWins

(***************************************************************************)
(* Properties of the cache partition                                       *)
(***************************************************************************)
\* the entry of the cache c under the namespace and key is absent or holds a
\* value of the shape
HoldsNothingOr(c, cacheName, key, shape) ==
    <<cacheName, key>> \in DOMAIN c => c[<<cacheName, key>>].value.type = shape

\* C13: the entry a resolver reads holds the value shape it expects: GetVPCID
\* finds nothing or a VPC id string under its fixed key, GetVPC(id) finds
\* nothing or a VPC descriptor under id, for every id, the empty string
\* included, and neither call fails on the shape of the entry.
C13_ResolversReadOwnEntries ==
    [][/\ (Called("GetVPCID") /\ ~GetVPCIDOverride(AWS_VPC_ID)) =>
             /\ HoldsNothingOr(cache, "EC2.GetVPCID", "", "*string")
             /\ ret'.err # Panic
       /\ Called("GetVPC") =>
             /\ HoldsNothingOr(cache, "EC2.GetVPCID", ret'.arg, "*ec2.Vpc")
             /\ ret'.err # Panic]_vars

(***************************************************************************)
(* Properties of the errors of ClusterSubnets                              *)
(***************************************************************************)
\* the last operation was ClusterSubnets and it failed because fewer than 2
\* subnets were admitted
FailedBelowTwo(r) ==
    /\ r.op = "ClusterSubnets"
    /\ r.err.code = "Retrieval of subnets failed to resolve 2 qualified subnets"

\* C14: when ClusterSubnets fails because fewer than 2 subnets were admitted,
\* the error names the cluster tag key and the role tag key that the
\* requested scheme requires, followed by the subnet ids that did resolve,
\* for scheme "internal" and for scheme "internet-facing".
C14_ErrorNamesSelectionKeys ==
    FailedBelowTwo(ret) =>
        /\ ret.arg \in {"internal", "internet-facing"}
        /\ ret.err.detail[1] = tagNameCluster
        /\ ret.err.detail[2] = ClusterSubnetsKey(ret.arg).key
        /\ Len(ret.err.detail) <= 3
        /\ Range(SubSeq(ret.err.detail, 3, Len(ret.err.detail))) \subseteq Range(ret.reads)

(***************************************************************************)
(* Properties of GetVPCID                                                  *)
(***************************************************************************)
\* the reservations of a DescribeInstances answer carry no usable VPC id:
\* no reservation, no instance in the first one, or a VPC id that is missing
\* or empty
NoUsableVpcId(reservations) ==
    \/ Len(reservations) = 0
    \/ Len(reservations[1]) = 0
    \/ reservations[1][1].VpcId \in {Nil, ""}

\* the call got an answer of DescribeInstances
DescribedInstances(r) ==
    /\ r.op = "GetVPCID" /\ Len(r.calls) = 2
    /\ r.err.code # "RequestError"

\* C16: without an override and on a cache miss, GetVPCID fails with a lookup
\* error and writes no cache entry whenever the DescribeInstances answer has
\* zero reservations, zero instances in its first reservation, or an instance
\* whose VPC id is missing or empty; otherwise it caches the VPC id, so that
\* a cached VPC id is never absent or empty.
C16_NoUsableVpcIdNotCached ==
    [][(Called("GetVPCID") /\ DescribedInstances(ret')) =>
          /\ ~GetVPCIDOverride(AWS_VPC_ID)
          /\ <<"EC2.GetVPCID", "">> \notin DOMAIN cache
          /\ IF NoUsableVpcId(ret'.calls[2].out)
               THEN /\ ret'.err.code = "LookupError"
                    /\ ret'.val = NilValue
                    /\ cache' = cache
               ELSE /\ ret'.err = NoErr
                    /\ ret'.val = String(ret'.calls[2].out[1][1].VpcId)
                    /\ CacheGet(cache', "EC2.GetVPCID", "") = ret'.val
                    /\ ret'.val.s \notin {Nil, ""}]_vars

\* GetVPCID was answered with an instance whose VPC id is empty and failed,
\* and nothing is cached under its key
C16_Witness ==
    /\ DescribedInstances(ret)
    /\ Len(ret.calls[2].out) = 1 /\ Len(ret.calls[2].out[1]) = 1
    /\ ret.calls[2].out[1][1].VpcId = ""
    /\ ret.err.code = "LookupError"
    /\ <<"EC2.GetVPCID", "">> \notin DOMAIN cache

(***************************************************************************)
(* Properties of the cached health verdict                                 *)
(***************************************************************************)
\* the last operation was IsNodeHealthy(i), it queried the instance status
\* and the answer had a status of i
AnsweredWithStatusOf(r, i) ==
    /\ r.op = "IsNodeHealthy" /\ r.arg = i
    /\ r.err = NoErr
    /\ r.calls # <<>>
    /\ \E n \in 1..Len(r.calls[1].out) : r.calls[1].out[n].InstanceId = i

\* the state code the answer reports for i: that of its first status of i
ReportedCode(r, i) ==
    LET out == r.calls[1].out
        n == CHOOSE m \in 1..Len(out) :
               /\ out[m].InstanceId = i
               /\ \A k \in 1..(m - 1) : out[k].InstanceId # i
    IN  out[n].Code

\* C17: when the status answer contains the requested instance id,
\* IsNodeHealthy returns true iff the reported state code is 16 and caches the
\* verdict; every call for that id less than 5 minutes after the query returns
\* the cached verdict and issues no status query, and a call made 5 minutes
\* or more after it issues a status query again.
C17_VerdictCachedFor5Minutes ==
    [][\A i \in InstanceIds :
         (Called("IsNodeHealthy") /\ ret'.arg = i) =>
           /\ AnsweredWithStatusOf(ret', i) =>
                 /\ ret'.val = Bool(ReportedCode(ret', i) = 16)
                 /\ CacheGet(cache', "ec2.IsNodeHealthy", i) = ret'.val
                 /\ fetched'[<<"IsNodeHealthy", i>>].val = ret'.val
                 /\ fetched'[<<"IsNodeHealthy", i>>].age = 0
           /\ (<<"IsNodeHealthy", i>> \in DOMAIN fetched) =>
                 IF fetched[<<"IsNodeHealthy", i>>].age < 5
                   THEN /\ ret'.val = fetched[<<"IsNodeHealthy", i>>].val
                        /\ ret'.err = NoErr
                        /\ ret'.calls = <<>>
                   ELSE IssuedOne(ret', "DescribeInstanceStatus", <<"InstanceIds", <<i>> >>)]_vars

\* a verdict of false, cached when the answer reported the stopped state, is
\* returned from the cache 4 minutes later
C17_Witness ==
    /\ ret.op = "IsNodeHealthy" /\ ret.err = NoErr /\ ret.calls = <<>>
    /\ <<"IsNodeHealthy", ret.arg>> \in DOMAIN fetched
    /\ fetched[<<"IsNodeHealthy", ret.arg>>].age = 4
    /\ ret.val = Bool(FALSE)

(***************************************************************************)
(* Properties of the list GetSubnets returns                               *)
(***************************************************************************)
\* no element occurs twice in q
NoDuplicates(q) == \A i, j \in 1..Len(q) : i # j => q[i] # q[j]

\* C20: for a request of distinct names, each naming a distinct subnet, the
\* list GetSubnets returns contains each subnet id at most once, whatever
\* subset of the names is in the cache when the call is made.
C20_EachSubnetOnce ==
    (/\ ret.op = "GetSubnets" /\ ret.err = NoErr
     /\ NoDuplicates(ret.arg)) => NoDuplicates(ret.val.elems)

(***************************************************************************)
(* Properties of GetSecurityGroups                                         *)
(***************************************************************************)
\* the call was answered from the cache alone
AnsweredFromCache(r) ==
    /\ r.err = NoErr
    /\ \A n \in 1..Len(r.calls) : r.calls[n].api # "DescribeSecurityGroups"

\* C19: caching is transparent for GetSecurityGroups: with the remote
\* inventory unchanged, a GetSecurityGroups(names) call answered from the
\* cache within the TTL returns the same set of group ids as the earlier
\* GetSecurityGroups(names) call that fetched them and populated the cache,
\* also when several groups of the inventory carry the same Name tag.
C19_CacheTransparent ==
    [][\A names \in GroupNameLists :
         (/\ Called("GetSecurityGroups") /\ ret'.arg = names
          /\ AnsweredFromCache(ret')
          /\ <<"GetSecurityGroups", names>> \in DOMAIN fetched
          /\ fetched[<<"GetSecurityGroups", names>>].age < 60) =>
            Range(ret'.val.elems) = Range(fetched[<<"GetSecurityGroups", names>>].val.elems)]_vars

\* the same for requests of names that no two groups of the inventory share
C19_CacheTransparentUniqueNames ==
    [][\A names \in GroupNameLists :
         (/\ Called("GetSecurityGroups") /\ ret'.arg = names
          /\ AnsweredFromCache(ret')
          /\ <<"GetSecurityGroups", names>> \in DOMAIN fetched
          /\ fetched[<<"GetSecurityGroups", names>>].age < 60
          /\ "sg-b" \notin Range(names)) =>
            Range(ret'.val.elems) = Range(fetched[<<"GetSecurityGroups", names>>].val.elems)]_vars

(***************************************************************************)
(* Properties of the paginated lookups                                     *)
(***************************************************************************)
PaginatedLookups == {"GetInstancesByID", "GetSecurityGroupByID", "GetSecurityGroupByName"}

\* a page request of the operation failed
PageFailed(r) == \E n \in 1..Len(r.calls) : r.calls[n].err # NoErr

\* C15: when a page request of a paginated describe fails, GetInstancesByID,
\* GetSecurityGroupByID and GetSecurityGroupByName return the error of that
\* page request and an absent result: the records of the pages fetched before
\* the failure are not returned.
C15_PageFailureReturnsNoRecords ==
    (ret.op \in PaginatedLookups /\ PageFailed(ret)) =>
        /\ ret.err = ret.calls[Len(ret.calls)].err
        /\ ret.err # NoErr
        /\ ret.val = NilValue

\* GetInstancesByID got a first page with a reservation and then a failure
C15_Witness ==
    /\ ret.op = "GetInstancesByID"
    /\ Len(ret.calls) = 2
    /\ ret.calls[1].err = NoErr /\ ret.calls[1].out # <<>>
    /\ ret.calls[2].err # NoErr
    /\ ret.err # NoErr /\ ret.val = NilValue

(***************************************************************************)
(* Properties of concurrent GetVPC calls                                   *)
(***************************************************************************)
\* caller p has returned from GetVPC(id), and the DescribeVpcs call it made,
\* if any, was answered with the one VPC of the id
Returned(p, id) ==
    /\ callers[p].pc = "done" /\ callers[p].id = id
    /\ callers[p].describes > 0 =>
          /\ callers[p].out = <<VpcInventory(id)>>
          /\ callers[p].err.code # "RequestError"

\* C18: when two callers invoke GetVPC(id) concurrently, then in every
\* interleaving of their cache reads, DescribeVpcs calls and cache writes no
\* caller issues more than one DescribeVpcs call, and once both have returned,
\* their DescribeVpcs calls answered with the VPC of id, both have returned
\* the descriptor of id without error and the cache holds the entry of id
\* with that descriptor.
C18_ConcurrentGetVPC ==
    /\ \A p \in DOMAIN callers : callers[p].describes <= 1
    /\ \A id \in VpcIds :
          (callers # NoCallers /\ \A p \in DOMAIN callers : Returned(p, id)) =>
              /\ \A p \in DOMAIN callers :
                    callers[p].val = VpcInventory(id) /\ callers[p].err = NoErr
              /\ CacheGet(cache, "EC2.GetVPCID", id) = VpcInventory(id)

\* both callers missed, both described and both wrote the entry of one id
C18_Witness ==
    /\ callers # NoCallers
    /\ \E id \in VpcIds : \A p \in DOMAIN callers :
          Returned(p, id) /\ callers[p].describes = 1
    /\ Cardinality(DOMAIN cache) = 1
====
